---- MODULE Spec2Model ----
(***************************************************************************)
(* pulumi-pve Python SDK: the Provider and storage File resource bindings  *)
(* (constructor marshaling, required-field checks, secret wrapping) and    *)
(* the host-side reconciliation contract they forward to.                  *)
(*                                                                         *)
(* A pass has two steps, as in the SDK: the constructor (__init__ /        *)
(* _internal_init) validates and builds the registration call, and the     *)
(* host then serves the in-flight call.  One task per resource.            *)
(***************************************************************************)
EXTENDS Integers, Sequences, FiniteSets, TLC

VARIABLES
    store,    \* resource name -> Output Model persisted by the host
    pc,       \* resource name -> "idle", "inflight" (call issued) or "done"
    call,     \* resource name -> arguments of the running constructor call
    host,     \* resource name -> what the constructor handed to
              \* super().__init__, or the error it raised
    result,   \* resource name -> outcome the caller sees
    before,   \* resource name -> Output Model when the pass began
    firstId   \* resource name -> id assigned by the first registration

vars == <<store, pc, call, host, result, before, firstId>>

(***************************************************************************)
(* Bounds                                                                  *)
(***************************************************************************)
\* highest generation of the host-assigned id a resource may reach by Replace
MaxGen == 2

(***************************************************************************)
(* Values.  A property value is a tagged tuple: None is the empty tuple,   *)
(* a string is <<"str", v>>, pulumi.Output.secret(v) is <<"secret", v>>    *)
(* and a FileSourceRawArgs is <<"raw", filename, data>>.                   *)
(***************************************************************************)
None == << >>
Str(v) == <<"str", v>>
SourceRaw(filename, data) == <<"raw", filename, data>>
Tag(x) == IF x = None THEN "none" ELSE x[1]

Atoms == {"a", "b"}
StrInputs == {None} \cup {Str(v) : v \in Atoms}
RawInputs == {None} \cup {SourceRaw(f, d) : f \in Atoms, d \in Atoms}

\* pulumi.Output.secret(x): an opaque secret handle over the same value
OutputSecret(x) == IF x = None THEN None ELSE <<"secret", x[2]>>

\* opts.id: 0 is None, otherwise a host-assigned id; opts.urn: "" is None
NoId == 0
NoUrn == ""
Truthy(urn) == urn # NoUrn

Res == {"pve", "f"}
Kind(n) == IF n = "pve" THEN "Provider" ELSE "File"
Urn(n) == IF n = "pve" THEN "urn:pve" ELSE "urn:f"

ProviderFields == {"pve_token", "pve_url", "pve_user", "ssh_pass", "ssh_user"}
FileFields == {"content_type", "datastore_id", "source_raw"}
Fields(kind) == IF kind = "Provider" THEN ProviderFields ELSE FileFields

\* ProviderArgs.__new__(ProviderArgs) / FileArgs.__new__(FileArgs) with the
\* given attribute values
ProviderArgs(pve_token, pve_url, pve_user, ssh_pass, ssh_user) ==
    [pve_token |-> pve_token, pve_url |-> pve_url, pve_user |-> pve_user,
     ssh_pass |-> ssh_pass, ssh_user |-> ssh_user]
FileArgs(content_type, datastore_id, source_raw) ==
    [content_type |-> content_type, datastore_id |-> datastore_id,
     source_raw |-> source_raw]

\* __props__: either None (given = FALSE) or a property bag
NoProps(kind) ==
    [given |-> FALSE,
     bag |-> IF kind = "Provider" THEN ProviderArgs(None, None, None, None, None)
             ELSE FileArgs(None, None, None)]
Props(b) == [given |-> TRUE, bag |-> b]

(***************************************************************************)
(* Errors                                                                  *)
(***************************************************************************)
NoErr == "ok"
PropsTypeError ==
    "__props__ is only valid when passed in combination with a valid opts.id to get an existing resource"
MissingRequired(f) == "Missing required property '" \o f \o "'"
IdentityNotFound == "IdentityNotFound"
TransportFailure == "TransportFailure"
MissingErrors(kind) == {MissingRequired(f) : f \in Fields(kind)}

\* what the constructor hands to super().__init__, or the error it raises
Raise(e, kind) ==
    [err |-> e, issued |-> FALSE, typ |-> "", props |-> NoProps(kind),
     opts_id |-> NoId, opts_urn |-> NoUrn, secret_outputs |-> {}]
Register(typ, kind, props, opts_id, opts_urn, secrets) ==
    [err |-> NoErr, issued |-> TRUE, typ |-> typ, props |-> props,
     opts_id |-> opts_id, opts_urn |-> opts_urn, secret_outputs |-> secrets]

(***************************************************************************)
(* provider.py                                                             *)
(***************************************************************************)
ProviderSecretOutputs == {"pveToken", "sshPass"}

\* slip: `or` for `and` in the last required-field check
Provider_internal_init_or(opts_id, opts_urn, props, pve_token, pve_url, pve_user, ssh_pass, ssh_user) ==
    IF opts_id = NoId
    THEN IF props.given THEN Raise(PropsTypeError, "Provider")
         ELSE IF pve_token = None /\ ~Truthy(opts_urn)
              THEN Raise(MissingRequired("pve_token"), "Provider")
         ELSE IF pve_url = None /\ ~Truthy(opts_urn)
              THEN Raise(MissingRequired("pve_url"), "Provider")
         ELSE IF pve_user = None /\ ~Truthy(opts_urn)
              THEN Raise(MissingRequired("pve_user"), "Provider")
         ELSE IF ssh_pass = None /\ ~Truthy(opts_urn)
              THEN Raise(MissingRequired("ssh_pass"), "Provider")
         ELSE IF ssh_user = None \/ ~Truthy(opts_urn)
              THEN Raise(MissingRequired("ssh_user"), "Provider")
         ELSE Register("pve", "Provider",
                       Props(ProviderArgs(OutputSecret(pve_token), pve_url, pve_user,
                                          OutputSecret(ssh_pass), ssh_user)),
                       opts_id, opts_urn, ProviderSecretOutputs)
    ELSE Register("pve", "Provider", props, opts_id, opts_urn, ProviderSecretOutputs)

\* slip: pve_url is checked but never stored in the bag
Provider_internal_init_no_url(opts_id, opts_urn, props, pve_token, pve_url, pve_user, ssh_pass, ssh_user) ==
    IF opts_id = NoId
    THEN IF props.given THEN Raise(PropsTypeError, "Provider")
         ELSE IF pve_token = None /\ ~Truthy(opts_urn)
              THEN Raise(MissingRequired("pve_token"), "Provider")
         ELSE IF pve_url = None /\ ~Truthy(opts_urn)
              THEN Raise(MissingRequired("pve_url"), "Provider")
         ELSE IF pve_user = None /\ ~Truthy(opts_urn)
              THEN Raise(MissingRequired("pve_user"), "Provider")
         ELSE IF ssh_pass = None /\ ~Truthy(opts_urn)
              THEN Raise(MissingRequired("ssh_pass"), "Provider")
         ELSE IF ssh_user = None /\ ~Truthy(opts_urn)
              THEN Raise(MissingRequired("ssh_user"), "Provider")
         ELSE Register("pve", "Provider",
                       Props(ProviderArgs(OutputSecret(pve_token), None, pve_user,
                                          OutputSecret(ssh_pass), ssh_user)),
                       opts_id, opts_urn, ProviderSecretOutputs)
    ELSE Register("pve", "Provider", props, opts_id, opts_urn, ProviderSecretOutputs)

Provider_internal_init(opts_id, opts_urn, props, pve_token, pve_url, pve_user, ssh_pass, ssh_user) ==
    IF opts_id = NoId
    THEN IF props.given THEN Raise(PropsTypeError, "Provider")
         ELSE IF pve_token = None /\ ~Truthy(opts_urn)
              THEN Raise(MissingRequired("pve_token"), "Provider")
         ELSE IF pve_url = None /\ ~Truthy(opts_urn)
              THEN Raise(MissingRequired("pve_url"), "Provider")
         ELSE IF pve_user = None /\ ~Truthy(opts_urn)
              THEN Raise(MissingRequired("pve_user"), "Provider")
         ELSE IF ssh_pass = None /\ ~Truthy(opts_urn)
              THEN Raise(MissingRequired("ssh_pass"), "Provider")
         ELSE IF ssh_user = None /\ ~Truthy(opts_urn)
              THEN Raise(MissingRequired("ssh_user"), "Provider")
         ELSE Register("pve", "Provider",
                       Props(ProviderArgs(OutputSecret(pve_token), pve_url, pve_user,
                                          OutputSecret(ssh_pass), ssh_user)),
                       opts_id, opts_urn, ProviderSecretOutputs)
    ELSE Register("pve", "Provider", props, opts_id, opts_urn, ProviderSecretOutputs)

(***************************************************************************)
(* storage/file.py                                                         *)
(***************************************************************************)
\* slip: source_raw is checked but never stored in the bag
File_internal_init_no_source_raw(opts_id, opts_urn, props, content_type, datastore_id, source_raw) ==
    IF opts_id = NoId
    THEN IF props.given THEN Raise(PropsTypeError, "File")
         ELSE IF content_type = None /\ ~Truthy(opts_urn)
              THEN Raise(MissingRequired("content_type"), "File")
         ELSE IF datastore_id = None /\ ~Truthy(opts_urn)
              THEN Raise(MissingRequired("datastore_id"), "File")
         ELSE IF source_raw = None /\ ~Truthy(opts_urn)
              THEN Raise(MissingRequired("source_raw"), "File")
         ELSE Register("pve:storage:File", "File",
                       Props(FileArgs(content_type, datastore_id, None)),
                       opts_id, opts_urn, {})
    ELSE Register("pve:storage:File", "File", props, opts_id, opts_urn, {})

\* slip: content_type and datastore_id are stored under each other's key
File_internal_init_swapped(opts_id, opts_urn, props, content_type, datastore_id, source_raw) ==
    IF opts_id = NoId
    THEN IF props.given THEN Raise(PropsTypeError, "File")
         ELSE IF content_type = None /\ ~Truthy(opts_urn)
              THEN Raise(MissingRequired("content_type"), "File")
         ELSE IF datastore_id = None /\ ~Truthy(opts_urn)
              THEN Raise(MissingRequired("datastore_id"), "File")
         ELSE IF source_raw = None /\ ~Truthy(opts_urn)
              THEN Raise(MissingRequired("source_raw"), "File")
         ELSE Register("pve:storage:File", "File",
                       Props(FileArgs(datastore_id, content_type, source_raw)),
                       opts_id, opts_urn, {})
    ELSE Register("pve:storage:File", "File", props, opts_id, opts_urn, {})

\* slip: the required-field checks ignore opts.urn
File_internal_init_no_urn(opts_id, opts_urn, props, content_type, datastore_id, source_raw) ==
    IF opts_id = NoId
    THEN IF props.given THEN Raise(PropsTypeError, "File")
         ELSE IF content_type = None
              THEN Raise(MissingRequired("content_type"), "File")
         ELSE IF datastore_id = None
              THEN Raise(MissingRequired("datastore_id"), "File")
         ELSE IF source_raw = None
              THEN Raise(MissingRequired("source_raw"), "File")
         ELSE Register("pve:storage:File", "File",
                       Props(FileArgs(content_type, datastore_id, source_raw)),
                       opts_id, opts_urn, {})
    ELSE Register("pve:storage:File", "File", props, opts_id, opts_urn, {})

\* slip: the required-field checks run whether or not opts.id is set
File_internal_init_checks_first(opts_id, opts_urn, props, content_type, datastore_id, source_raw) ==
    IF content_type = None /\ ~Truthy(opts_urn)
    THEN Raise(MissingRequired("content_type"), "File")
    ELSE IF datastore_id = None /\ ~Truthy(opts_urn)
    THEN Raise(MissingRequired("datastore_id"), "File")
    ELSE IF source_raw = None /\ ~Truthy(opts_urn)
    THEN Raise(MissingRequired("source_raw"), "File")
    ELSE IF opts_id = NoId
    THEN IF props.given THEN Raise(PropsTypeError, "File")
         ELSE Register("pve:storage:File", "File",
                       Props(FileArgs(content_type, datastore_id, source_raw)),
                       opts_id, opts_urn, {})
    ELSE Register("pve:storage:File", "File", props, opts_id, opts_urn, {})

File_internal_init(opts_id, opts_urn, props, content_type, datastore_id, source_raw) ==
    IF opts_id = NoId
    THEN IF props.given THEN Raise(PropsTypeError, "File")
         ELSE IF content_type = None /\ ~Truthy(opts_urn)
              THEN Raise(MissingRequired("content_type"), "File")
         ELSE IF datastore_id = None /\ ~Truthy(opts_urn)
              THEN Raise(MissingRequired("datastore_id"), "File")
         ELSE IF source_raw = None /\ ~Truthy(opts_urn)
              THEN Raise(MissingRequired("source_raw"), "File")
         ELSE Register("pve:storage:File", "File",
                       Props(FileArgs(content_type, datastore_id, source_raw)),
                       opts_id, opts_urn, {})
    ELSE Register("pve:storage:File", "File", props, opts_id, opts_urn, {})

\* File.get(resource_name, id, opts): the id is merged into opts and a bag
\* with every property unset is supplied as __props__
File_get_call(id, opts_urn) ==
    File_internal_init(id, opts_urn, Props(FileArgs(None, None, None)), None, None, None)

(***************************************************************************)
(* The host: persisted Output Models and the reconciliation contract       *)
(***************************************************************************)
NoModel(kind) == [exists |-> FALSE, id |-> NoId, urn |-> NoUrn, props |-> NoProps(kind).bag]
Model(id, urn, props) == [exists |-> TRUE, id |-> id, urn |-> urn, props |-> props]

Immutable(kind) == IF kind = "File" THEN {"source_raw"} ELSE {}
Mutable(kind) == Fields(kind) \ Immutable(kind)

Differ(fs, desired, observed) == \E f \in fs : desired[f] # observed[f]

Classify(kind, desired, existing) ==
    IF ~existing.exists THEN "Create"
    ELSE IF Differ(Immutable(kind), desired, existing.props) THEN "Replace"
    ELSE IF Differ(Mutable(kind), desired, existing.props) THEN "Update"
    ELSE "NoChange"

\* the Output Model an action leaves behind
CreateModel(n, desired) == Model(1, Urn(n), desired)
\* slip: an update in place hands out a fresh id
UpdateModel_newid(existing, desired) == Model(existing.id + 1, existing.urn, desired)
UpdateModel(existing, desired) == Model(existing.id, existing.urn, desired)
ReplaceModel(existing, desired) == Model(existing.id + 1, existing.urn, desired)

Apply(n, action, desired, existing) ==
    CASE action = "Create" -> CreateModel(n, desired)
      [] action = "Update" -> UpdateModel(existing, desired)
      [] action = "Replace" -> ReplaceModel(existing, desired)
      [] OTHER -> existing

Ops(action) ==
    CASE action = "Create" -> <<"create">>
      [] action = "Update" -> <<"update">>
      [] action = "Replace" -> <<"delete", "create">>
      [] OTHER -> <<"read">>

Outcome(action, err, ops, calls) ==
    [action |-> action, err |-> err, ops |-> ops, host_calls |-> calls]
NoResult == Outcome("", NoErr, << >>, 0)

\* pulumi.Resource.__init__: a call naming an existing identity (opts.urn or
\* opts.id) is a lookup, any other call is a registration
IsLookup(h) == Truthy(h.opts_urn) \/ h.opts_id # NoId

Found(h, existing) ==
    /\ existing.exists
    /\ IF Truthy(h.opts_urn) THEN h.opts_urn = existing.urn ELSE h.opts_id = existing.id

Fails == {"none", "transport", "notfound"}

\* the host serving call h of resource n whose persisted model is `existing`:
\* the model persisted afterwards and the outcome reported to the caller
HostServe(n, h, existing, fail) ==
    IF IsLookup(h)
    THEN [model |-> existing,
          out |-> IF fail = "transport" THEN Outcome("Lookup", TransportFailure, << >>, 1)
                  ELSE IF Found(h, existing) THEN Outcome("Lookup", NoErr, <<"read">>, 1)
                  ELSE Outcome("Lookup", IdentityNotFound, <<"read">>, 1)]
    ELSE LET action == Classify(Kind(n), h.props.bag, existing) IN
         IF fail = "transport"
         THEN [model |-> existing, out |-> Outcome(action, TransportFailure, << >>, 1)]
         ELSE IF fail = "notfound"
         THEN [model |-> existing, out |-> Outcome(action, IdentityNotFound, << >>, 1)]
         ELSE [model |-> Apply(n, action, h.props.bag, existing),
               out |-> Outcome(action, NoErr, Ops(action), 1)]

(***************************************************************************)
(* State machine                                                           *)
(***************************************************************************)
NoCall(kind) ==
    [op |-> "none", path |-> "kwargs", opts_id |-> NoId, opts_urn |-> NoUrn,
     props |-> NoProps(kind), args |-> NoProps(kind).bag]
Call(op, path, opts_id, opts_urn, props, args) ==
    [op |-> op, path |-> path, opts_id |-> opts_id, opts_urn |-> opts_urn,
     props |-> props, args |-> args]

Init ==
    /\ store = [n \in Res |-> NoModel(Kind(n))]
    /\ pc = [n \in Res |-> "idle"]
    /\ call = [n \in Res |-> NoCall(Kind(n))]
    /\ host = [n \in Res |-> Raise(NoErr, Kind(n))]
    /\ result = [n \in Res |-> NoResult]
    /\ before = [n \in Res |-> NoModel(Kind(n))]
    /\ firstId = [n \in Res |-> NoId]

\* slip: an error raised by the constructor is swallowed
Constructed_swallow(n, c, h) ==
    /\ pc[n] = "idle"
    /\ call' = [call EXCEPT ![n] = c]
    /\ host' = [host EXCEPT ![n] = h]
    /\ before' = [before EXCEPT ![n] = store[n]]
    /\ pc' = [pc EXCEPT ![n] = IF h.issued THEN "inflight" ELSE "done"]
    /\ result' = [result EXCEPT ![n] = NoResult]
    /\ UNCHANGED <<store, firstId>>

\* slip: the options object is shared between instances, so the id of another
\* instance's in-flight call leaks into this one
Constructed_shared_opts(n, c, h) ==
    LET others == {m \in Res \ {n} : pc[m] = "inflight" /\ host[m].opts_id # NoId}
        hh == IF h.issued /\ others # {}
              THEN [h EXCEPT !.opts_id = host[CHOOSE m \in others : TRUE].opts_id]
              ELSE h
    IN
    /\ pc[n] = "idle"
    /\ call' = [call EXCEPT ![n] = c]
    /\ host' = [host EXCEPT ![n] = hh]
    /\ before' = [before EXCEPT ![n] = store[n]]
    /\ pc' = [pc EXCEPT ![n] = IF hh.issued THEN "inflight" ELSE "done"]
    /\ result' = [result EXCEPT ![n] =
                     IF hh.issued THEN NoResult ELSE Outcome("", hh.err, << >>, 0)]
    /\ UNCHANGED <<store, firstId>>

\* the constructor has run: either it raised (the pass is over, no host call)
\* or the registration call is in flight
Constructed(n, c, h) ==
    /\ pc[n] = "idle"
    /\ call' = [call EXCEPT ![n] = c]
    /\ host' = [host EXCEPT ![n] = h]
    /\ before' = [before EXCEPT ![n] = store[n]]
    /\ pc' = [pc EXCEPT ![n] = IF h.issued THEN "inflight" ELSE "done"]
    /\ result' = [result EXCEPT ![n] =
                     IF h.issued THEN NoResult ELSE Outcome("", h.err, << >>, 0)]
    /\ UNCHANGED <<store, firstId>>

\* Provider.__init__: with a ProviderArgs object (path "args") its attributes
\* become the keyword arguments and no __props__ is passed
Provider_init(n, path, opts_id, opts_urn, props, pve_token, pve_url, pve_user, ssh_pass, ssh_user) ==
    /\ Kind(n) = "Provider"
    /\ path = "args" => ~props.given
    /\ Constructed(n,
          Call("init", path, opts_id, opts_urn, props,
               ProviderArgs(pve_token, pve_url, pve_user, ssh_pass, ssh_user)),
          Provider_internal_init(opts_id, opts_urn, props,
                                 pve_token, pve_url, pve_user, ssh_pass, ssh_user))

File_init(n, path, opts_id, opts_urn, props, content_type, datastore_id, source_raw) ==
    /\ Kind(n) = "File"
    /\ path = "args" => ~props.given
    /\ Constructed(n,
          Call("init", path, opts_id, opts_urn, props,
               FileArgs(content_type, datastore_id, source_raw)),
          File_internal_init(opts_id, opts_urn, props,
                             content_type, datastore_id, source_raw))

File_get(n, id, opts_urn) ==
    /\ Kind(n) = "File"
    /\ id # NoId
    /\ Constructed(n,
          Call("get", "kwargs", id, opts_urn, Props(FileArgs(None, None, None)),
               FileArgs(None, None, None)),
          File_get_call(id, opts_urn))

\* the host serves the in-flight call of resource n
HostStep(n, fail) ==
    /\ pc[n] = "inflight"
    /\ LET r == HostServe(n, host[n], store[n], fail) IN
       /\ fail = "notfound" => r.out.action \in {"Update", "Replace"}
       /\ r.model.id <= MaxGen
       /\ store' = [store EXCEPT ![n] = r.model]
       /\ result' = [result EXCEPT ![n] = r.out]
       /\ firstId' = [firstId EXCEPT ![n] =
                         IF @ = NoId /\ r.model.exists THEN r.model.id ELSE @]
    /\ pc' = [pc EXCEPT ![n] = "done"]
    /\ UNCHANGED <<call, host, before>>

\* the caller has seen the outcome; the resource is ready for its next pass
Return(n) ==
    /\ pc[n] = "done"
    /\ pc' = [pc EXCEPT ![n] = "idle"]
    /\ call' = [call EXCEPT ![n] = NoCall(Kind(n))]
    /\ host' = [host EXCEPT ![n] = Raise(NoErr, Kind(n))]
    /\ result' = [result EXCEPT ![n] = NoResult]
    /\ before' = [before EXCEPT ![n] = NoModel(Kind(n))]
    /\ UNCHANGED <<store, firstId>>

(***************************************************************************)
(* Inputs                                                                  *)
(***************************************************************************)
Paths == {"kwargs", "args"}
IdInputs == NoId .. MaxGen
UrnInputs(n) == {NoUrn, Urn(n)}

ProviderBags ==
    {Props(ProviderArgs(None, None, None, None, None)),
     Props(ProviderArgs(Str("a"), Str("a"), Str("a"), Str("b"), Str("a"))),
     Props(ProviderArgs(OutputSecret(Str("a")), Str("a"), Str("a"),
                        OutputSecret(Str("b")), Str("a")))}
FileBags ==
    {Props(FileArgs(None, None, None)),
     Props(FileArgs(Str("a"), Str("a"), SourceRaw("a", "a")))}

ProviderStep(n) ==
    /\ pc[n] = "idle"
    /\ Kind(n) = "Provider"
    /\ \E path \in Paths, opts_id \in IdInputs, opts_urn \in UrnInputs(n),
          props \in {NoProps("Provider")} \cup ProviderBags,
          pve_token \in StrInputs, pve_url \in StrInputs, pve_user \in StrInputs,
          ssh_pass \in StrInputs, ssh_user \in StrInputs :
           Provider_init(n, path, opts_id, opts_urn, props,
                         pve_token, pve_url, pve_user, ssh_pass, ssh_user)

FileStep(n) ==
    /\ pc[n] = "idle"
    /\ Kind(n) = "File"
    /\ \E path \in Paths, opts_id \in IdInputs, opts_urn \in UrnInputs(n),
          props \in {NoProps("File")} \cup FileBags,
          content_type \in StrInputs, datastore_id \in StrInputs, source_raw \in RawInputs :
           File_init(n, path, opts_id, opts_urn, props, content_type, datastore_id, source_raw)

GetStep(n) ==
    /\ pc[n] = "idle"
    /\ \E id \in IdInputs, opts_urn \in UrnInputs(n) : File_get(n, id, opts_urn)

ServeStep(n) == \E fail \in Fails : HostStep(n, fail)

\* no other resource has been touched
Alone(n) == \A m \in Res \ {n} : pc[m] = "idle" /\ ~store[m].exists

\* every resource type on its own, over every input
Next ==
    \/ \E n \in Res : Alone(n) /\ ProviderStep(n)
    \/ \E n \in Res : Alone(n) /\ FileStep(n)
    \/ \E n \in Res : Alone(n) /\ GetStep(n)
    \/ \E n \in Res : ServeStep(n)
    \/ \E n \in Res : Return(n)

Spec == Init /\ [][Next]_vars

\* the passes of the resources run concurrently, one task per resource, over
\* the inputs that reach every action and every error
ProviderStepC(n) ==
    /\ pc[n] = "idle"
    /\ Kind(n) = "Provider"
    /\ \E opts_id \in {NoId, 1},
          props \in {NoProps("Provider"),
                     Props(ProviderArgs(Str("a"), Str("a"), Str("a"), Str("b"), Str("a")))},
          pve_token \in {Str("a"), Str("b")}, pve_url \in StrInputs :
           Provider_init(n, "kwargs", opts_id, NoUrn, props,
                         pve_token, pve_url, Str("a"), Str("b"), Str("a"))

FileStepC(n) ==
    /\ pc[n] = "idle"
    /\ Kind(n) = "File"
    /\ \E opts_urn \in UrnInputs(n), props \in {NoProps("File")} \cup FileBags,
          content_type \in {Str("a"), Str("b")},
          source_raw \in {None, SourceRaw("a", "a"), SourceRaw("a", "b")} :
           File_init(n, "kwargs", NoId, opts_urn, props, content_type, Str("a"), source_raw)

GetStepC(n) ==
    /\ pc[n] = "idle"
    /\ File_get(n, 1, NoUrn)

NextConcurrent ==
    \/ \E n \in Res : ProviderStepC(n)
    \/ \E n \in Res : FileStepC(n)
    \/ \E n \in Res : GetStepC(n)
    \/ \E n \in Res : ServeStep(n)
    \/ \E n \in Res : Return(n)

SpecConcurrent == Init /\ [][NextConcurrent]_vars

(***************************************************************************)
(* Properties                                                              *)
(***************************************************************************)
\* the Secret Marker set of a resource type
SecretMarker(kind) == IF kind = "Provider" THEN {"pve_token", "ssh_pass"} ELSE {}

\* the desired property set a caller declares with the arguments `args`
DesiredProps(kind, args) ==
    [f \in Fields(kind) |-> IF f \in SecretMarker(kind) THEN OutputSecret(args[f]) ELSE args[f]]
Desired(n) == DesiredProps(Kind(n), call[n].args)

Constructing(n) == call[n].op # "none"
RequiredAbsent(n) == \E f \in Fields(Kind(n)) : call[n].args[f] = None
AllRequired(n) == ~RequiredAbsent(n)
\* the caller names no existing identity and supplies no property bag
CreatePath(n) ==
    /\ call[n].op = "init"
    /\ call[n].opts_id = NoId
    /\ ~Truthy(call[n].opts_urn)
    /\ ~call[n].props.given
\* a reconciliation pass of n has been decided
Passed(n) == pc[n] = "done" /\ CreatePath(n) /\ AllRequired(n)
Succeeded(n) == pc[n] = "done" /\ result[n].err = NoErr

\* C1: for Provider and File alike, a pass with no existing Output Model (no
\* identity named by the caller, none persisted) and every required field
\* present is registered and classified Create, whatever the field values,
\* never Update, Replace or NoChange; when the host call succeeds the
\* resource has the identity that pass assigned.
C1_CreateWhenNoModel ==
    \A n \in Res :
        (Passed(n) /\ ~before[n].exists) =>
            /\ host[n].issued
            /\ result[n].action = "Create"
            /\ result[n].err \in {NoErr, TransportFailure}
            /\ result[n].err = NoErr =>
                  /\ store[n].exists
                  /\ store[n].id # NoId
                  /\ store[n].urn = Urn(n)
                  /\ firstId[n] = store[n].id
                  /\ store[n].props = Desired(n)

C1_Witness ==
    \E n \in Res :
        /\ Passed(n) /\ ~before[n].exists /\ Kind(n) = "File"
        /\ call[n].args = FileArgs(Str("a"), Str("b"), SourceRaw("a", "b"))
        /\ result[n].action = "Create" /\ result[n].err = NoErr
        /\ store[n].id = 1

\* C2: on an existing resource, a desired immutable field (source_raw) that
\* differs from the observed one yields Replace, never Update, whatever the
\* other fields are; a successful Replace ends the old identity and assigns a
\* new one, a failed one leaves the old resource untouched.
C2_ImmutableChangeReplaces ==
    \A n \in Res :
        (/\ Passed(n) /\ before[n].exists
         /\ Differ(Immutable(Kind(n)), call[n].args, before[n].props)) =>
            /\ host[n].issued
            /\ result[n].action = "Replace"
            /\ result[n].err = NoErr =>
                  /\ store[n].exists
                  /\ store[n].id # before[n].id
                  /\ store[n].props = Desired(n)
                  /\ result[n].ops = <<"delete", "create">>
            /\ result[n].err # NoErr => store[n] = before[n]

C2_Witness ==
    \E n \in Res :
        /\ Kind(n) = "File" /\ Passed(n) /\ before[n].exists
        /\ call[n].args.source_raw[2] = before[n].props.source_raw[2]
        /\ call[n].args.source_raw[3] # before[n].props.source_raw[3]
        /\ call[n].args.content_type = before[n].props.content_type
        /\ call[n].args.datastore_id = before[n].props.datastore_id
        /\ result[n].action = "Replace" /\ result[n].err = NoErr
        /\ store[n].id = before[n].id + 1

\* C3: on an existing resource, when no immutable field differs and some
\* mutable field does, the pass yields Update and the identity (id and
\* structured name) after the pass is the identity before it.
C3_MutableChangeUpdates ==
    \A n \in Res :
        (/\ Passed(n) /\ before[n].exists
         /\ ~Differ(Immutable(Kind(n)), Desired(n), before[n].props)
         /\ Differ(Mutable(Kind(n)), Desired(n), before[n].props)) =>
            /\ host[n].issued
            /\ result[n].action = "Update"
            /\ store[n].exists
            /\ store[n].id = before[n].id
            /\ store[n].urn = before[n].urn
            /\ result[n].err = NoErr => store[n].props = Desired(n)

C3_Witness ==
    \E n \in Res :
        /\ Passed(n) /\ before[n].exists /\ Kind(n) = "Provider"
        /\ Desired(n).pve_url # before[n].props.pve_url
        /\ result[n].action = "Update" /\ result[n].err = NoErr
        /\ store[n].id = before[n].id
        /\ store[n].props # before[n].props

\* C4: a pass whose desired property set equals the observed one yields
\* NoChange, leaves the persisted Output Model and identity as they were and
\* issues nothing but a read-confirmation; and a successful Create, Update
\* or Replace persists exactly the desired set, so that a second pass with
\* the identical input is such a pass.
C4_Idempotent ==
    \A n \in Res :
        /\ (Passed(n) /\ before[n].exists /\ Desired(n) = before[n].props) =>
              /\ host[n].issued
              /\ result[n].action = "NoChange"
              /\ store[n] = before[n]
              /\ result[n].ops \in {<< >>, <<"read">>}
              /\ result[n].host_calls = 1
        /\ (Passed(n) /\ Succeeded(n)
            /\ result[n].action \in {"Create", "Update", "Replace"}) =>
              store[n].props = Desired(n)

C4_Witness ==
    \E n \in Res :
        /\ Passed(n) /\ before[n].exists /\ Desired(n) = before[n].props
        /\ result[n].action = "NoChange" /\ result[n].err = NoErr
        /\ result[n].ops = <<"read">>
        /\ store[n] = before[n]

\* C5: in every property map handed to the host registration call, on every
\* construction path, a Secret Marker field that carries a value is a secret
\* and never plaintext, and the Provider's options name pveToken and sshPass
\* as secret outputs.
C5_SecretsNeverPlaintext ==
    \A n \in Res :
        host[n].issued =>
            /\ \A f \in SecretMarker(Kind(n)) :
                  Tag(host[n].props.bag[f]) \in {"none", "secret"}
            /\ Kind(n) = "Provider" => host[n].secret_outputs = {"pveToken", "sshPass"}

PassEnds(n) == pc[n] # "done" /\ pc'[n] = "done"
C7_FailedPassLeavesModels ==
    [][\A n \in Res :
          PassEnds(n) =>
              /\ host'[n].err # NoErr =>
                    result'[n].err = host'[n].err /\ result'[n].host_calls = 0
              /\ result'[n].err # NoErr =>
                    /\ store' = store
                    /\ firstId' = firstId
                    /\ result'[n].host_calls <= 1
                    /\ host'[n].issued =>
                          result'[n].err \in {IdentityNotFound, TransportFailure}]_vars

C7_Witness ==
    \E n \in Res, m \in Res :
        /\ n # m /\ store[m].exists /\ store[n].exists
        /\ pc[n] = "done" /\ result[n].err = TransportFailure
        /\ before[n] = store[n]
        /\ pc[m] = "done" /\ result[m].err \in MissingErrors(Kind(m))

\* C8 as stated: the identity of a resource is the identity its first
\* successful registration assigned, after any sequence of passes.
C8_IdentityNeverChanges ==
    \A n \in Res : store[n].exists => store[n].id = firstId[n]

\* C8 amended: the identity is assigned by the first successful registration
\* and no Create, Update, NoChange, lookup or failed pass changes it; only a
\* successful Replace ends it and assigns the next one, and the structured
\* name never changes.
ReplaceEnds(n) ==
    PassEnds(n) /\ result'[n].action = "Replace" /\ result'[n].err = NoErr
C8_IdentityChangesOnlyByReplace ==
    [][\A n \in Res :
          /\ store[n].exists =>
                /\ store'[n].exists
                /\ store'[n].urn = store[n].urn
                /\ firstId'[n] = firstId[n]
                /\ ~ReplaceEnds(n) => store'[n].id = store[n].id
          /\ (~store[n].exists /\ store'[n].exists) =>
                /\ PassEnds(n) /\ result'[n].action = "Create"
                /\ firstId'[n] = store'[n].id]_vars

C8_Witness ==
    \E n \in Res :
        /\ Kind(n) = "File" /\ Passed(n) /\ Succeeded(n)
        /\ result[n].action = "Update"
        /\ before[n].id # firstId[n]
        /\ store[n].id = before[n].id
        /\ store[n].urn = Urn(n)

\* C9: with the passes of several resources in flight at once, under every
\* interleaving the outcome of a pass and the Output Model it leaves are
\* those the pass yields alone, from its own inputs and the model its
\* resource had when the pass began.
AloneCall(n) ==
    IF call[n].op = "get" THEN File_get_call(call[n].opts_id, call[n].opts_urn)
    ELSE IF Kind(n) = "Provider"
    THEN Provider_internal_init(call[n].opts_id, call[n].opts_urn, call[n].props,
                                call[n].args.pve_token, call[n].args.pve_url,
                                call[n].args.pve_user, call[n].args.ssh_pass,
                                call[n].args.ssh_user)
    ELSE File_internal_init(call[n].opts_id, call[n].opts_urn, call[n].props,
                            call[n].args.content_type, call[n].args.datastore_id,
                            call[n].args.source_raw)
C10_PropsOnlyWithId ==
    \A n \in Res :
        Constructing(n) =>
            /\ (call[n].props.given /\ call[n].opts_id = NoId) =>
                  host[n].err = PropsTypeError /\ ~host[n].issued
            /\ call[n].opts_id # NoId =>
                  /\ host[n].issued
                  /\ host[n].err = NoErr
                  /\ host[n].props = call[n].props
                  /\ host[n].opts_id = call[n].opts_id
            /\ call[n].op = "get" =>
                  host[n].issued /\ host[n].props = Props(FileArgs(None, None, None))

C10_Witness ==
    \E n \in Res :
        /\ call[n].op = "get" /\ host[n].issued /\ pc[n] = "done"
        /\ RequiredAbsent(n)
        /\ host[n].props = Props(FileArgs(None, None, None))
        /\ result[n].err = NoErr

====
